---- MODULE Spec2Model ----
(***************************************************************************)
(* Optimization_Script.py: exhaustive search of a six-dye composition grid *)
(* for the blend whose light-harvesting spectrum best matches the solar    *)
(* irradiance spectrum, under three figures of merit.                      *)
(*                                                                         *)
(* The script is a straight-line program.  Each section of the script is   *)
(* one action; pc names the section that runs next.                        *)
(*                                                                         *)
(* Numbers.                                                                *)
(*  - The volume-fraction grid is IEEE-754 binary64, bit for bit: the      *)
(*    filter "Sum == 1" depends on the rounding of every addition.  A      *)
(*    binary64 value x with 0 <= x < 8 that is 0 or at least 2^-4 is kept  *)
(*    as the integer x * 2^56, split in three limbs of 20 bits             *)
(*    <<hi, mid, lo>> (TLC integers are 32 bits wide).  Every value the    *)
(*    enumerator touches is of that kind as long as N <= 17.               *)
(*  - Spectra and scores are exact rationals <<numerator, denominator>>,   *)
(*    with <<0, 0>> for NaN.  Comparisons with NaN are false, as in        *)
(*    IEEE-754.                                                            *)
(***************************************************************************)
EXTENDS Integers, Sequences, FiniteSets, TLC

\* Largest grid resolution N the user input is drawn from.
MaxN == 7

\* Number of samples of the wavelength domain (461 in the script).
NumWavelengths == 3

\* First wavelength of the domain, in nm.
wavelength_start == 340

VARIABLES
  pc,                  \* section of the script that runs next
  error,               \* exception that ended the run, or "none"
  stdout,              \* messages printed so far
  spectrum_regression, \* spectrum_regression(wavelength)
  spectrum_integral,
  normal_spectrum,
  N,
  v,                   \* np.linspace(0, 1, N)
  V,                   \* meshgrid positions where condition is True, in mask order
  RBF,                 \* the fitted interpolants (response model)
  correlation,
  integral,
  covariance,
  correlation_answer,
  integral_answer,
  covariance_answer,
  a,                   \* <<>> while the name is unbound, <<index>> once assigned
  b,
  c

vars == <<pc, error, stdout, spectrum_regression, spectrum_integral, normal_spectrum,
          N, v, V, RBF, correlation, integral, covariance,
          correlation_answer, integral_answer, covariance_answer, a, b, c>>

-----------------------------------------------------------------------------
(* binary64 arithmetic on the volume-fraction grid *)

Base == 2^20

RECURSIVE BitLen(_)
BitLen(x) == IF x = 0 THEN 0 ELSE 1 + BitLen(x \div 2)

\* Carry (or borrow) propagation between limbs.
Norm(hi, mid, lo) ==
  LET m1 == mid + (lo \div Base)
  IN  <<hi + (m1 \div Base), m1 % Base, lo % Base>>

\* Bits to drop from a value with high limb hi to keep 53 significant bits
\* (values below 8: hi < 2^19).
excess_bits(hi) ==
  IF hi < 2^13 THEN 0
  ELSE IF hi < 2^14 THEN 1
  ELSE IF hi < 2^15 THEN 2
  ELSE IF hi < 2^16 THEN 3
  ELSE IF hi < 2^17 THEN 4
  ELSE IF hi < 2^18 THEN 5
  ELSE 6

\* Round an exact value to 53 significant bits, ties to even.
Round(x) ==
  LET d == excess_bits(x[1])
  IN  IF d = 0 THEN x
      ELSE LET p   == 2^d
               rem == x[3] % p
               q   == x[3] \div p
               up  == (2 * rem > p) \/ (2 * rem = p /\ q % 2 = 1)
           IN  IF rem = 0 THEN x
               ELSE Norm(x[1], x[2], x[3] - rem + (IF up THEN p ELSE 0))

float_add(x, y) == Round(Norm(x[1] + y[1], x[2] + y[2], x[3] + y[3]))

float_sub(x, y) == Round(Norm(x[1] - y[1], x[2] - y[2], x[3] - y[3]))

\* float(i) * x for a small non-negative integer i.
float_mul(i, x) == Round(Norm(i * x[1], i * x[2], i * x[3]))

\* 1.0 / float(m) for an integer 1 <= m <= 16: the quotient 2^(52+e) / m,
\* e = ceil(log2 m), has 53 significant bits before rounding.
float_inv(m) ==
  LET e  == BitLen(m - 1)
      na == 2^(12 + e)
      qa == na \div m
      ra == na % m
      qb == (ra * Base) \div m
      rb == (ra * Base) % m
      qc == (rb * Base) \div m
      rc == (rb * Base) % m
      up == (2 * rc > m) \/ (2 * rc = m /\ qc % 2 = 1)
      p  == 2^(4 - e)
  IN  Norm(p * qa, p * qb, p * (qc + (IF up THEN 1 ELSE 0)))

float_zero == <<0, 0, 0>>

float_one == <<2^16, 0, 0>>

float_le(x, y) ==
  \/ x[1] < y[1]
  \/ x[1] = y[1] /\ x[2] < y[2]
  \/ x[1] = y[1] /\ x[2] = y[2] /\ x[3] <= y[3]

\* np.linspace(0, 1, num): arange(num) * (1 / (num - 1)), last entry set to stop.
linspace(num) ==
  IF num = 1 THEN <<float_zero>>
  ELSE LET step == float_inv(num - 1)
       IN  [i \in 1..num |-> IF i = num THEN float_one ELSE float_mul(i - 1, step)]

\* Variant: indexing = 'xy', which swaps the first two axes.
meshgrid_xy(k, p) == v[p[IF k = 1 THEN 2 ELSE IF k = 2 THEN 1 ELSE k] + 1]

\* np.meshgrid(v, v, v, v, v, v, indexing = 'ij'): output k at position p
\* (a tuple of six 0-based indices) is v[p[k]].
meshgrid(k, p) == v[p[k] + 1]

v1(p) == meshgrid(1, p)
v2(p) == meshgrid(2, p)
v3(p) == meshgrid(3, p)
v4(p) == meshgrid(4, p)
v5(p) == meshgrid(5, p)
v6(p) == meshgrid(6, p)

\* Sum = v1 + v2 + v3 + v4 + v5 + v6, evaluated left to right.
Sum(p) ==
  float_add(float_add(float_add(float_add(float_add(v1(p), v2(p)), v3(p)), v4(p)), v5(p)), v6(p))

\* Variant: Sum <= 1.
condition_le(s) == float_le(s, float_one)

\* condition = Sum == 1, on one element of Sum.
condition(s) == s = float_one

\* The positions selected by the boolean mask, in the order boolean indexing
\* returns them: row-major, first axis slowest.  s is the running value of
\* Sum over the axes fixed so far (element p of v1 + ... + vk depends on
\* p[1..k] only, so it is computed once per prefix).
RECURSIVE boolean_index(_, _, _), along_axis(_, _, _, _)
boolean_index(vv, p, s) ==
  IF Len(p) = 6
  THEN IF condition(s) THEN <<p>> ELSE <<>>
  ELSE along_axis(vv, p, s, 0)

\* The selected positions that extend prefix p by an index >= i.
along_axis(vv, p, s, i) ==
  IF i >= Len(vv) THEN <<>>
  ELSE boolean_index(vv, Append(p, i),
                     IF Len(p) = 0 THEN vv[i + 1] ELSE float_add(s, vv[i + 1]))
       \o along_axis(vv, p, s, i + 1)

\* V1[i] .. V6[i] for a 0-based index i.
V1(i) == v1(V[i + 1])
V2(i) == v2(V[i + 1])
V3(i) == v3(V[i + 1])
V4(i) == v4(V[i + 1])
V5(i) == v5(V[i + 1])
V6(i) == v6(V[i + 1])

Composition(i) == <<V1(i), V2(i), V3(i), V4(i), V5(i), V6(i)>>

-----------------------------------------------------------------------------
(* exact rationals, with NaN *)

NaN == <<0, 0>>

IsNaN(x) == x[2] = 0

Abs(n) == IF n < 0 THEN 0 - n ELSE n

RECURSIVE GCD(_, _)
GCD(m, n) == IF n = 0 THEN m ELSE GCD(n, m % n)

Rat(n, d) ==
  IF d = 0 THEN NaN
  ELSE LET g == GCD(Abs(n), Abs(d))
       IN  IF d < 0 THEN <<(0 - n) \div g, (0 - d) \div g>> ELSE <<n \div g, d \div g>>

RatInt(n) == <<n, 1>>

RatAdd(x, y) ==
  IF IsNaN(x) \/ IsNaN(y) THEN NaN
  ELSE LET g == GCD(x[2], y[2])
       IN  Rat(x[1] * (y[2] \div g) + y[1] * (x[2] \div g), (x[2] \div g) * y[2])

RatNeg(x) == IF IsNaN(x) THEN NaN ELSE <<0 - x[1], x[2]>>

RatSub(x, y) == RatAdd(x, RatNeg(y))

RatMul(x, y) ==
  IF IsNaN(x) \/ IsNaN(y) THEN NaN
  ELSE LET g1 == GCD(Abs(x[1]), y[2])
           g2 == GCD(Abs(y[1]), x[2])
       IN  Rat((x[1] \div g1) * (y[1] \div g2), (x[2] \div g2) * (y[2] \div g1))

\* x / y; 0 / 0 is NaN.  (A non-zero value over zero, an infinity, does not
\* arise from the inputs drawn below.)
RatDiv(x, y) ==
  IF IsNaN(x) \/ IsNaN(y) \/ y[1] = 0 THEN NaN
  ELSE RatMul(x, IF y[1] < 0 THEN <<0 - y[2], 0 - y[1]>> ELSE <<y[2], y[1]>>)

\* IEEE comparisons: false as soon as one side is NaN.
RatEq(x, y) == ~IsNaN(x) /\ ~IsNaN(y) /\ x = y
RatGt(x, y) == ~IsNaN(x) /\ ~IsNaN(y) /\ x[1] * y[2] > y[1] * x[2]
RatGe(x, y) == ~IsNaN(x) /\ ~IsNaN(y) /\ x[1] * y[2] >= y[1] * x[2]

RECURSIVE RatSum(_)
RatSum(s) == IF s = <<>> THEN RatInt(0) ELSE RatAdd(s[1], RatSum(Tail(s)))

-----------------------------------------------------------------------------
(* spectra and figures of merit *)

\* wavelength = np.linspace(340, 800, 461): 1 nm apart.
wavelength == [i \in 1..NumWavelengths |-> wavelength_start + (i - 1)]

\* Variant: the halving left out.
trapezoid_no_half(y, x) ==
  RatSum([i \in 1..(Len(y) - 1) |->
            RatMul(RatInt(x[i + 1] - x[i]), RatAdd(y[i + 1], y[i]))])

\* integrate.trapezoid(y, x) = sum(diff(x) * (y[1:] + y[:-1]) / 2).
trapezoid(y, x) ==
  RatSum([i \in 1..(Len(y) - 1) |->
            RatDiv(RatMul(RatInt(x[i + 1] - x[i]), RatAdd(y[i + 1], y[i])), RatInt(2))])

mean(x) == RatDiv(RatSum(x), RatInt(Len(x)))

\* x - x.mean()
centered(x) == LET m == mean(x) IN [i \in 1..Len(x) |-> RatSub(x[i], m)]

dot(x, y) == RatSum([i \in 1..Len(x) |-> RatMul(x[i], y[i])])

\* np.cov(x, y)[0, 1]: sample covariance, n - 1 in the denominator.
cov(x, y) == RatDiv(dot(centered(x), centered(y)), RatInt(Len(x) - 1))

is_constant(x) == \A i \in 1..Len(x) : x[i] = x[1]

\* pearsonr(x, y)[0] for len(x) >= 3.  r = s / sqrt(xx * yy) is irrational in
\* general; the score kept is sign(r) * r^2, which is r for r in {-1, 0, 1} and
\* orders and separates scores exactly as r does.  A constant input gives NaN.
pearsonr(x, y) ==
  IF is_constant(x) \/ is_constant(y) THEN NaN
  ELSE LET xm == centered(x)
           ym == centered(y)
           s  == dot(xm, ym)
           r2 == RatDiv(RatMul(s, s), RatMul(dot(xm, xm), dot(ym, ym)))
       IN  IF s[1] < 0 THEN RatNeg(r2) ELSE r2

\* The shapes of the absorbance spectra the measured data can hold, as
\* absorbance per wavelength index (already clipped at 0).
Shape(name) ==
  [i \in 1..NumWavelengths |->
     CASE name = "zero"        -> 0
       [] name = "flat"        -> 1
       [] name = "rise"        -> IF i > 1 THEN 1 ELSE 0
       [] name = "mirror_rise" -> IF i < NumWavelengths THEN 1 ELSE 0
       [] name = "fall"        -> IF i = 1 THEN 1 ELSE 0
       [] name = "tail"        -> IF i = NumWavelengths THEN 1 ELSE 0
       [] name = "ring"        -> IF i = NumWavelengths THEN 1
                                  ELSE IF i = 2 \/ i = NumWavelengths - 1 THEN 2 ELSE 0
       [] name = "mirror_ring" -> IF i = 1 THEN 1
                                  ELSE IF i = 2 \/ i = NumWavelengths - 1 THEN 2 ELSE 0]

\* The response models the search is run on: interpolants fitted to
\* measurements of some pure dyes (pure: constituent -> shape) that predict
\* the shape cold for every other composition.
EmpiricalDatasets ==
  { [pure |-> (3 :> "rise"),                        cold |-> "fall"],
    [pure |-> (2 :> "rise" @@ 5 :> "rise"),         cold |-> "fall"],
    [pure |-> (3 :> "rise" @@ 4 :> "mirror_rise"),  cold |-> "fall"],
    [pure |-> (3 :> "tail" @@ 4 :> "ring"),         cold |-> "fall"],
    [pure |-> (3 :> "flat"),                        cold |-> "zero"],
    [pure |-> (3 :> "rise" @@ 4 :> "mirror_ring"),  cold |-> "fall"],
    [pure |-> (6 :> "rise"),                        cold |-> "flat"] }

\* RBF[index](I1, ..., I6), with I = <<I1, ..., I6>>.
RBF_absorbance_value(index, I) ==
  LET dyes == {k \in DOMAIN RBF.pure :
                 I[k] = float_one /\ \A j \in (1..6) \ {k} : I[j] = float_zero}
  IN  IF dyes = {} THEN Shape(RBF.cold)[index]
      ELSE Shape(RBF.pure[CHOOSE k \in dyes : TRUE])[index]

\* 1 - 10 ** (- A) for an integer absorbance A >= 0.
LHE(A) == Rat(10^A - 1, 10^A)

\* F(I1, ..., I6): the light-harvesting spectrum over the wavelength domain.
F(I) == [index \in 1..NumWavelengths |-> LHE(RBF_absorbance_value(index, I))]

\* The regressions of the irradiance data the search is run on, evaluated
\* over the wavelength domain: a ramp and a constant.
IrradianceRegressions ==
  { [i \in 1..NumWavelengths |-> RatInt(i)],
    [i \in 1..NumWavelengths |-> Rat(9, 10)] }

-----------------------------------------------------------------------------
(* result selection *)

\* Python's max(list): the first item, replaced by each later item that
\* compares greater.  A comparison with NaN is false, so a NaN in first place
\* is never replaced, and a NaN elsewhere never replaces: the result is the
\* first item if that is NaN, and otherwise the greatest item that is no NaN.
max(list) ==
  IF IsNaN(list[1]) THEN list[1]
  ELSE LET items == {list[i] : i \in 1..Len(list)}
       IN  CHOOSE m \in items :
             ~IsNaN(m) /\ \A x \in items : IsNaN(x) \/ RatGe(m, x)

\* Variant: 1-based indices.
where_equal_one_based(list, m) ==
  SelectSeq([i \in 1..Len(list) |-> i], LAMBDA i : RatEq(list[i], m))

\* np.where(list == m)[0]: the 0-based indices whose entry equals m, ascending.
where_equal(list, m) ==
  SelectSeq([i \in 1..Len(list) |-> i - 1], LAMBDA i : RatEq(list[i + 1], m))

\* Variant: list(np.where(...)[0]) with each index as its own array.
answer_per_index(list) ==
  LET idx == SelectSeq([i \in 1..Len(list) |-> i - 1],
                       LAMBDA i : RatEq(list[i + 1], max(list)))
  IN  [k \in 1..Len(idx) |-> <<idx[k]>>]

\* list(np.where(list == max(list))): np.where returns a tuple holding one
\* index array per dimension, here one.
answer(list) == <<where_equal(list, max(list))>>

\* What the section "find best fit" does with a score list: the exception it
\* raises ("none" if it completes), the answer list, and the index assigned.
\*   max() of an empty list raises ValueError;
\*   with len(answer) > 1 the index is never assigned and the plot that
\*   follows reads it: NameError;
\*   answer[0] of an empty answer list raises IndexError;
\*   int() of an array that does not hold exactly one element raises TypeError.
best_fit(list) ==
  IF list = <<>> THEN [error |-> "ValueError", answer |-> <<>>, index |-> <<>>]
  ELSE LET ans == answer(list)
       IN  IF Len(ans) > 1 THEN [error |-> "NameError", answer |-> ans, index |-> <<>>]
           ELSE IF Len(ans) = 0
                THEN [error |-> "IndexError", answer |-> ans, index |-> <<>>]
           ELSE IF Len(ans[1]) # 1
                THEN [error |-> "TypeError", answer |-> ans, index |-> <<>>]
                ELSE [error |-> "none", answer |-> ans, index |-> <<ans[1][1]>>]

\* The lines printed by the section, given its outcome.
best_fit_output(metric, r) ==
  IF r.error = "ValueError" THEN <<>>
  ELSE IF Len(r.answer) > 1 THEN <<[text |-> "multiple best fits", metric |-> metric]>>
  ELSE IF r.error # "none" THEN <<>>
  ELSE <<[text |-> "best fit", metric |-> metric, index |-> r.index[1],
          fractions |-> Composition(r.index[1])]>>

-----------------------------------------------------------------------------
(* the script *)

Init ==
  /\ pc = "irradiance"
  /\ error = "none"
  /\ stdout = <<>>
  /\ spectrum_regression = <<>>
  /\ spectrum_integral = NaN
  /\ normal_spectrum = <<>>
  /\ N = 0
  /\ v = <<>>
  /\ V = <<>>
  /\ RBF = [pure |-> <<>>, cold |-> "zero"]
  /\ correlation = <<>>
  /\ integral = <<>>
  /\ covariance = <<>>
  /\ correlation_answer = <<>>
  /\ integral_answer = <<>>
  /\ covariance_answer = <<>>
  /\ a = <<>>
  /\ b = <<>>
  /\ c = <<>>

\* Lines 33-45: the regression of the irradiance data and its normalization.
ImportIrradiance ==
  /\ pc = "irradiance" /\ error = "none"
  /\ \E regression \in IrradianceRegressions :
       /\ spectrum_regression' = regression
       /\ spectrum_integral' = trapezoid(regression, wavelength)
       /\ normal_spectrum' =
            [i \in 1..Len(regression) |->
               RatDiv(regression[i], trapezoid(regression, wavelength))]
  /\ pc' = "combinations"
  /\ UNCHANGED <<error, stdout, N, v, V, RBF, correlation, integral, covariance,
                 correlation_answer, integral_answer, covariance_answer, a, b, c>>

\* Lines 73-99: the volume-fraction array, the meshgrid, the mask and the
\* compositions it keeps.  Printing v[1] - v[0] raises IndexError when v has
\* fewer than two entries.
GenerateCombinations ==
  /\ pc = "combinations" /\ error = "none"
  /\ \E n \in 1..MaxN :
       LET vv == linspace(n)
       IN  /\ N' = n
           /\ v' = vv
           /\ IF Len(vv) < 2
              THEN /\ error' = "IndexError"
                   /\ UNCHANGED <<pc, stdout, V>>
              ELSE LET kept == boolean_index(vv, <<>>, float_zero)
                   IN  /\ V' = kept
                       /\ stdout' = stdout \o
                            << [text |-> "resolution", value |-> float_sub(vv[2], vv[1])],
                               [text |-> "total number of combinations", value |-> Len(kept)] >>
                       /\ pc' = "rbf"
                       /\ UNCHANGED error
  /\ UNCHANGED <<spectrum_regression, spectrum_integral, normal_spectrum, RBF,
                 correlation, integral, covariance,
                 correlation_answer, integral_answer, covariance_answer, a, b, c>>

\* Lines 109-141 and 171-177: the interpolants are fitted to the measured
\* data, and the three score lists start empty.
GenerateRBF ==
  /\ pc = "rbf" /\ error = "none"
  /\ \E dataset \in EmpiricalDatasets : RBF' = dataset
  /\ correlation' = <<>>
  /\ integral' = <<>>
  /\ covariance' = <<>>
  /\ pc' = "loop"
  /\ UNCHANGED <<error, stdout, spectrum_regression, spectrum_integral, normal_spectrum,
                 N, v, V, correlation_answer, integral_answer, covariance_answer, a, b, c>>

\* Variant: the loop stops one item early.
has_next_short == Len(correlation) + 1 < Len(V)

\* The zip over V1 .. V6 has another item: as many items were consumed as
\* scores were appended.
has_next == Len(correlation) < Len(V)

\* The reference sequence the loop passes to pearsonr and np.cov.
reference == spectrum_regression

\* Lines 180-211: one iteration of the loop over the compositions.
LoopIteration ==
  /\ pc = "loop" /\ error = "none"
  /\ has_next
  /\ LET f == Composition(Len(correlation))
     IN  /\ correlation' = Append(correlation, pearsonr(reference, F(f)))
         /\ integral' = Append(integral, trapezoid(F(f), wavelength))
         /\ covariance' = Append(covariance, cov(reference, F(f)))
  /\ UNCHANGED <<pc, error, stdout, spectrum_regression, spectrum_integral, normal_spectrum,
                 N, v, V, RBF, correlation_answer, integral_answer, covariance_answer, a, b, c>>

\* Line 180: the zip is exhausted and the loop ends.
LoopExit ==
  /\ pc = "loop" /\ error = "none"
  /\ ~has_next
  /\ pc' = "correlation_answer"
  /\ UNCHANGED <<error, stdout, spectrum_regression, spectrum_integral, normal_spectrum,
                 N, v, V, RBF, correlation, integral, covariance,
                 correlation_answer, integral_answer, covariance_answer, a, b, c>>

\* Lines 222-231 (and the plots of 236-278, which read a).
FindCorrelation ==
  /\ pc = "correlation_answer" /\ error = "none"
  /\ LET r == best_fit(correlation)
     IN  /\ correlation_answer' = r.answer
         /\ a' = r.index
         /\ error' = r.error
         /\ stdout' = stdout \o best_fit_output("correlation", r)
         /\ pc' = IF r.error = "none" THEN "integral_answer" ELSE pc
  /\ UNCHANGED <<spectrum_regression, spectrum_integral, normal_spectrum, N, v, V, RBF,
                 correlation, integral, covariance, integral_answer, covariance_answer, b, c>>

\* Lines 286-295 (and the plots of 300-342, which read b).
FindIntegral ==
  /\ pc = "integral_answer" /\ error = "none"
  /\ LET r == best_fit(integral)
     IN  /\ integral_answer' = r.answer
         /\ b' = r.index
         /\ error' = r.error
         /\ stdout' = stdout \o best_fit_output("integral", r)
         /\ pc' = IF r.error = "none" THEN "covariance_answer" ELSE pc
  /\ UNCHANGED <<spectrum_regression, spectrum_integral, normal_spectrum, N, v, V, RBF,
                 correlation, integral, covariance, correlation_answer, covariance_answer, a, c>>

\* Lines 348-357 (and the plots of 362-401, which read c).
FindCovariance ==
  /\ pc = "covariance_answer" /\ error = "none"
  /\ LET r == best_fit(covariance)
     IN  /\ covariance_answer' = r.answer
         /\ c' = r.index
         /\ error' = r.error
         /\ stdout' = stdout \o best_fit_output("covariance", r)
         /\ pc' = IF r.error = "none" THEN "done" ELSE pc
  /\ UNCHANGED <<spectrum_regression, spectrum_integral, normal_spectrum, N, v, V, RBF,
                 correlation, integral, covariance, correlation_answer, integral_answer, a, b>>

Next ==
  \/ ImportIrradiance
  \/ GenerateCombinations
  \/ GenerateRBF
  \/ LoopIteration
  \/ LoopExit
  \/ FindCorrelation
  \/ FindIntegral
  \/ FindCovariance

Spec == Init /\ [][Next]_vars

-----------------------------------------------------------------------------
(* properties *)

float_lt(x, y) == x # y /\ float_le(x, y)

int_lt(x, y) == x < y

\* s comes before t in lexicographic order, lt ordering the components.
lex_less(s, t, lt(_, _)) ==
  \E j \in 1..6 : (\A i \in 1..(j - 1) : s[i] = t[i]) /\ lt(s[j], t[j])

\* The number of k-tuples of integers in 0..m that sum to r.
RECURSIVE solutions(_, _, _)
solutions(k, m, r) ==
  IF k = 0 THEN (IF r = 0 THEN 1 ELSE 0)
  ELSE LET RECURSIVE first(_)
           first(x) == IF x > m \/ x > r THEN 0
                       ELSE solutions(k - 1, m, r - x) + first(x + 1)
       IN  first(0)

\* The 0-based indices at which a score list attains its maximum: the indices
\* i with list[i] >= list[j] for every j (none when the list holds a NaN).
argmax(list) ==
  {i \in 0..(Len(list) - 1) : \A x \in {list[j] : j \in 1..Len(list)} : RatGe(list[i + 1], x)}

\* The sections "find best fit" that have run (to completion or to an
\* exception raised after the answer list was built).
ran_correlation ==
  \/ pc \in {"integral_answer", "covariance_answer", "done"}
  \/ pc = "correlation_answer" /\ error \in {"IndexError", "TypeError", "NameError"}
ran_integral ==
  \/ pc \in {"covariance_answer", "done"}
  \/ pc = "integral_answer" /\ error \in {"IndexError", "TypeError", "NameError"}
ran_covariance ==
  \/ pc = "done"
  \/ pc = "covariance_answer" /\ error \in {"IndexError", "TypeError", "NameError"}

\* The run printed index i as the best fit of the metric, with composition i.
reported(metric, i) ==
  \E m \in DOMAIN stdout :
    /\ stdout[m].text = "best fit"
    /\ stdout[m].metric = metric
    /\ stdout[m].index = i
    /\ stdout[m].fractions = Composition(i)

\* The run printed that the metric has several best fits.
reported_multiple(metric) ==
  \E m \in DOMAIN stdout :
    stdout[m].text = "multiple best fits" /\ stdout[m].metric = metric

\* C1: once the enumerator has run, every composition it kept sums to 1.0 in
\* the arithmetic of the script, has its six components in [0, 1], and stands
\* for fractions p[k] / (N - 1) that sum to exactly 1.
C1_CompositionsOnSimplex ==
  pc = "rbf" =>
    \A k \in 1..Len(V) :
      LET p == V[k]
      IN  /\ Sum(p) = float_one
          /\ \A j \in 1..6 : float_le(float_zero, meshgrid(j, p))
                             /\ float_le(meshgrid(j, p), float_one)
          /\ p[1] + p[2] + p[3] + p[4] + p[5] + p[6] = N - 1

C1_Witness ==
  /\ pc = "rbf"
  /\ N = MaxN
  /\ \E k \in 1..Len(V) : \E j \in 1..6 : meshgrid(j, V[k])[3] # 0

\* C2: once the enumerator has run, the number of compositions is the number
\* of solutions of x1 + ... + x6 = N - 1 with each xi in 0..N-1; N = 3 gives
\* 21, and N = 2 gives 6, the unit vectors.
C2_Cardinality ==
  pc = "rbf" =>
    /\ Len(V) = solutions(6, N - 1, N - 1)
    /\ N = 3 => Len(V) = 21
    /\ N = 2 => /\ Len(V) = 6
                /\ \A k \in 1..6 :
                     \E u \in 1..6 :
                       Composition(k - 1) = [j \in 1..6 |-> IF j = u THEN float_one ELSE float_zero]

\* C3: for each metric, when two or more indices attain the maximum score and
\* result selection has run, every such index has been reported.
C3_TiesReported ==
  /\ (ran_correlation /\ Cardinality(argmax(correlation)) >= 2) =>
       \A i \in argmax(correlation) : reported("correlation", i)
  /\ (ran_integral /\ Cardinality(argmax(integral)) >= 2) =>
       \A i \in argmax(integral) : reported("integral", i)
  /\ (ran_covariance /\ Cardinality(argmax(covariance)) >= 2) =>
       \A i \in argmax(covariance) : reported("covariance", i)

\* The mask selects no position: of the grid built, or, when the run ended
\* in the enumerator before the mask was applied, of the grid of its v.
grid_is_empty ==
  /\ N >= 1
  /\ IF pc = "combinations" THEN boolean_index(v, <<>>, float_zero) = <<>>
     ELSE pc # "irradiance" /\ V = <<>>

\* C4: a run whose composition grid is empty ends with a report of the
\* degenerate grid.
C4_DegenerateGridReported ==
  ((error # "none" \/ pc = "done") /\ grid_is_empty) =>
    \/ error = "degenerate grid"
    \/ \E m \in DOMAIN stdout : stdout[m].text = "degenerate grid"

\* The score lists of the loop: same length throughout, the length of the
\* grid once the loop has ended.
C5_Lengths ==
  /\ Len(correlation) = Len(integral)
  /\ Len(integral) = Len(covariance)
  /\ pc \in {"correlation_answer", "integral_answer", "covariance_answer", "done"} =>
       Len(correlation) = Len(V)

\* A step leaves the score lists alone or appends to each the score of the
\* next composition in enumeration order.
C5_Append ==
  \/ /\ correlation' = correlation
     /\ integral' = integral
     /\ covariance' = covariance
  \/ LET k == Len(correlation)
         y == F(Composition(k))
     IN  /\ k < Len(V)
         /\ V' = V
         /\ correlation' = Append(correlation, pearsonr(spectrum_regression, y))
         /\ integral' = Append(integral, trapezoid(y, wavelength))
         /\ covariance' = Append(covariance, cov(spectrum_regression, y))

\* C5: the three score lists grow in step, append-only, entry i being the
\* score of the i-th enumerated composition, and hold one entry per
\* composition when the loop ends.
C5_ParallelScores == []C5_Lengths /\ [][C5_Append]_vars

C5_Witness == pc = "correlation_answer" /\ Len(V) > 6 /\ Len(covariance) = Len(V)

\* What result selection has to have done for a metric whose maximum is
\* attained at exactly one index.
unique_best_reported(list, metric, index) ==
  Cardinality(argmax(list)) = 1 =>
    \E i \in argmax(list) :
      /\ index = <<i>>
      /\ i < Len(V)
      /\ reported(metric, i)

\* C6: for each metric whose maximum is attained at exactly one index, result
\* selection assigns that index, a position of the grid, and reports the
\* composition at that position.
C6_UniqueBestFit ==
  /\ ran_correlation => unique_best_reported(correlation, "correlation", a)
  /\ ran_integral => unique_best_reported(integral, "integral", b)
  /\ ran_covariance => unique_best_reported(covariance, "covariance", c)

C6_Witness ==
  /\ pc = "done"
  /\ Len(V) > 6
  /\ Cardinality(argmax(correlation)) = 1
  /\ Cardinality(argmax(integral)) = 1
  /\ Cardinality(argmax(covariance)) = 1
  /\ a # b

\* C7: the compositions kept are in lexicographic order, first constituent
\* most significant (consecutive entries increase; the order is transitive).
C7_LexicographicOrder ==
  pc = "rbf" =>
    \A k \in 1..(Len(V) - 1) :
      /\ lex_less(Composition(k - 1), Composition(k), float_lt)
      /\ lex_less(V[k], V[k + 1], int_lt)

C7_Witness == pc = "rbf" /\ N = MaxN /\ Len(V) > 6

\* C8: the correlation and covariance recorded for a composition are those
\* of its spectrum against the normalized irradiance spectrum.
C8_ReferenceIsNormalized ==
  (pc = "loop" /\ Len(correlation) >= 1) =>
    LET k == Len(correlation)
        y == F(Composition(k - 1))
    IN  /\ correlation[k] = pearsonr(normal_spectrum, y)
        /\ covariance[k] = cov(normal_spectrum, y)

\* Composition i is the one composition of the grid whose spectrum is the
\* reference sequence the scores are computed against.
reproduces_reference(i) ==
  /\ F(Composition(i)) = reference
  /\ \A j \in 0..(Len(V) - 1) : j # i => F(Composition(j)) # reference

\* C9 as stated: with a constant reference that one composition reproduces,
\* that composition is the unique arg-max of correlation, with value 1, and
\* of covariance, and its integral is that of the constant over the domain.
C9_ConstantReferenceArgmax ==
  (pc = "correlation_answer" /\ is_constant(reference)) =>
    \A i \in 0..(Len(V) - 1) :
      reproduces_reference(i) =>
        /\ argmax(correlation) = {i}
        /\ correlation[i + 1] = RatInt(1)
        /\ argmax(covariance) = {i}
        /\ integral[i + 1] =
             RatMul(reference[1], RatInt(wavelength[NumWavelengths] - wavelength[1]))

\* C9 as amended: with a constant reference that one composition reproduces,
\* the correlation of every composition is NaN, and the integral of that
\* composition is that of the constant over the domain.
C9_ConstantReferenceScores ==
  (pc = "correlation_answer" /\ is_constant(reference)) =>
    \A i \in 0..(Len(V) - 1) :
      reproduces_reference(i) =>
        /\ \A j \in 1..Len(correlation) : IsNaN(correlation[j])
        /\ integral[i + 1] =
             RatMul(reference[1], RatInt(wavelength[NumWavelengths] - wavelength[1]))

C9_Witness ==
  /\ pc = "correlation_answer"
  /\ is_constant(reference)
  /\ Len(V) > 6
  /\ \E i \in 0..(Len(V) - 1) : reproduces_reference(i)

\* What C10 says of one metric: the answer list holds one array, however many
\* indices it names, and the branch taken is the one that converts it.
single_answer(list, metric) ==
  /\ Len(list) = 1
  /\ ~reported_multiple(metric)
  /\ error # "NameError"

====
